---- MODULE Spec2Model ----
(***************************************************************************)
(* WeightTrackPro: the session-authenticated REST handlers of              *)
(* server/routes.ts over the storage layer (DatabaseStorage) and the       *)
(* two tables of shared/schema.ts.                                         *)
(*                                                                         *)
(* Encodings.                                                              *)
(*  - A date string "YYYY-MM-DD" is the integer YYYYMMDD: the order of the *)
(*    integers is the order of the zero-padded strings and of the dates.   *)
(*  - A JavaScript Date is an instant [date, hour] in UTC; the server's    *)
(*    time zone is tz hours east of UTC (local time = UTC + tz).           *)
(*  - A stored weight (decimal(10,2)) is an integer number of hundredths;  *)
(*    a submitted weight is an integer number of thousandths.              *)
(***************************************************************************)
EXTENDS Integers, Sequences, FiniteSets, TLC

VARIABLES
    users,          \* the users table: a set of rows
    userSeq,        \* the serial sequence behind users.id (last value given out)
    weightRecords,  \* the weight_records table: rows in insertion order
    session,        \* the session store: session id -> bound user id, or NoUser
    tz,             \* the server's time zone offset, hours east of UTC
    resp,           \* the last request served and its response
    pending         \* requests past their middleware whose handler has not run

vars == <<users, userSeq, weightRecords, session, tz, resp, pending>>

\* ---------------------------------------------------------------- bounds

MaxUsers == 2
MaxRecords == 1
MaxStatRecords == 3
\* Under SpecWrites: the ids the users sequence hands out, the records stored.
MaxWriteUsers == 3
MaxWriteRecords == 2
\* Under SpecReads: the records stored.
MaxReadRecords == 2
\* Under SpecAuth: the records stored.
MaxAuthRecords == 1
\* Under SpecRace: the records stored, the requests between their two steps.
MaxRaceRecords == 2
MaxPending == 1

\* ------------------------------------------------------- calendar (JS Date)

IsLeap(y) == (y % 4 = 0 /\ y % 100 # 0) \/ y % 400 = 0

DaysInMonth(y, m) ==
    IF m = 2 THEN (IF IsLeap(y) THEN 29 ELSE 28)
    ELSE IF m \in {4, 6, 9, 11} THEN 30 ELSE 31

MkDate(y, m, d) == y * 10000 + m * 100 + d
YearOf(ds) == ds \div 10000
MonthOf(ds) == (ds \div 100) % 100
DayOf(ds) == ds % 100

PrevDay(ds) ==
    LET y == YearOf(ds)  m == MonthOf(ds)  d == DayOf(ds) IN
    IF d > 1 THEN MkDate(y, m, d - 1)
    ELSE IF m > 1 THEN MkDate(y, m - 1, DaysInMonth(y, m - 1))
    ELSE MkDate(y - 1, 12, 31)

NextDay(ds) ==
    LET y == YearOf(ds)  m == MonthOf(ds)  d == DayOf(ds) IN
    IF d < DaysInMonth(y, m) THEN MkDate(y, m, d + 1)
    ELSE IF m < 12 THEN MkDate(y, m + 1, 1)
    ELSE MkDate(y + 1, 1, 1)

\* new Date("YYYY-MM-DD"): a date-only ISO string is midnight UTC.
DateFromString(ds) == [date |-> ds, hour |-> 0]

\* The civil date new Date(year, monthIndex, day) normalises to, for the
\* monthIndex 0..12 and the day 0..1 the code passes: month 12 is January of
\* the next year, day 0 is the last day of the month before.
CivilDate(year, monthIndex, day) ==
    LET y == IF monthIndex > 11 THEN year + 1 ELSE year
        m == IF monthIndex > 11 THEN monthIndex - 11 ELSE monthIndex + 1
        first == MkDate(y, m, 1)
    IN  IF day = 0 THEN PrevDay(first) ELSE MkDate(y, m, day)

\* new Date(year, monthIndex, day): midnight LOCAL time of that civil date,
\* as a UTC instant (UTC = local - zone).
DateLocal(year, monthIndex, day, zone) ==
    LET civil == CivilDate(year, monthIndex, day) IN
    IF zone > 0 THEN [date |-> PrevDay(civil), hour |-> 24 - zone]
    ELSE [date |-> civil, hour |-> 0 - zone]

\* d.toISOString().split('T')[0]: the UTC date of the instant.
toISODate(inst) == inst.date

\* The local civil date of an instant, which getFullYear, getMonth and
\* getDate read.
LocalDateOf(inst, zone) ==
    LET h == inst.hour + zone IN
    IF h >= 24 THEN NextDay(inst.date)
    ELSE IF h < 0 THEN PrevDay(inst.date)
    ELSE inst.date

getFullYear(inst, zone) == YearOf(LocalDateOf(inst, zone))
getMonth(inst, zone) == MonthOf(LocalDateOf(inst, zone)) - 1
getDate(inst, zone) == DayOf(LocalDateOf(inst, zone))

\* The instants (UTC) at which the model reads the clock, and the zones the
\* server may run in.
Noon == [date |-> 20240315, hour |-> 12]

Instants == {Noon,
             [date |-> 20240131, hour |-> 23],
             [date |-> 20240201, hour |-> 1],
             [date |-> 20240229, hour |-> 12],
             [date |-> 20230228, hour |-> 12]}

Zones == {-3, 0, 2}

\* ------------------------------------------------------------ schema.ts

NoUser == 0         \* no userId in the session (undefined is falsy, as is 0)
Absent == 0         \* a body field that is missing or falsy (undefined, "", 0)

WorkTypes == {"filetagem", "espinho"}

\* users.cpf is varchar(11): the identifiers the model draws from, by length.
CpfLen(c) == IF c \in {"11658845935", "22222222222", "33333333333"} THEN 11
             ELSE IF c = "123" THEN 3 ELSE 12

\* weight is decimal(10, 2). The route hands storage a positive number (here
\* in thousandths); record.weight.toString() is stored rounded to two
\* decimals, half up, and read back as the decimal string "int.frac".
ToDecimal2(milli) ==
    LET hundredths == (milli + 5) \div 10 IN
    [int |-> hundredths \div 100, frac |-> hundredths % 100]

\* parseFloat of a stored decimal string, in hundredths.
parseFloat(stored) == stored.int * 100 + stored.frac

\* -------------------------------------------------- storage (DatabaseStorage)

\* const [user] = await db.select()...: the rows, of which the caller takes
\* the first; {} is the undefined result.
getUser(id) == {u \in users : u.id = id}

getUserByCpf(cpf) == {u \in users : u.cpf = cpf}

getAllUsers == users

\* getActiveUsers without its where clause.
getActiveUsers_NoFilter == users

\* where(and(eq(users.isActive, true), eq(users.isAdmin, false)))
getActiveUsers == {u \in users : u.isActive = TRUE /\ u.isAdmin = FALSE}

\* validateUser without the isActive test.
validateUser_IgnoreActive(cpf, password) ==
    {u \in users : u.cpf = cpf /\ u.password = password}

validateUser(cpf, password) ==
    {u \in users : u.cpf = cpf /\ u.password = password /\ u.isActive = TRUE}

\* orderBy(desc(date), asc(createdAt)): the oldest of a day first.
ByDateDescCreatedDesc_Asc(a, b) ==
    \/ a.date > b.date
    \/ a.date = b.date /\ a.createdAt < b.createdAt

\* orderBy(desc(date), desc(createdAt))
ByDateDescCreatedDesc(a, b) ==
    \/ a.date > b.date
    \/ a.date = b.date /\ a.createdAt > b.createdAt

\* orderBy(desc(createdAt))
ByCreatedDesc(a, b) == a.createdAt > b.createdAt

NoDate == [date |-> 0, hour |-> 0]      \* an undefined Date argument
IsDate(d) == d.date # 0

\* getUserWeightRecords applying each bound that is supplied, on its own.
getUserWeightRecords_EachBound(userId, startDate, endDate) ==
    LET rows == SelectSeq(weightRecords, LAMBDA r :
                    /\ r.userId = userId
                    /\ IsDate(startDate) => r.date >= toISODate(startDate)
                    /\ IsDate(endDate) => r.date <= toISODate(endDate))
    IN  SortSeq(rows, ByDateDescCreatedDesc)

\* if (startDate && endDate) push(gte(date, start), lte(date, end))
getUserWeightRecords(userId, startDate, endDate) ==
    LET byUser == SelectSeq(weightRecords, LAMBDA r : r.userId = userId)
        rows == IF IsDate(startDate) /\ IsDate(endDate)
                THEN SelectSeq(byUser, LAMBDA r :
                         /\ r.date >= toISODate(startDate)
                         /\ r.date <= toISODate(endDate))
                ELSE byUser
    IN  SortSeq(rows, ByDateDescCreatedDesc)

getAllWeightRecords(startDate, endDate) ==
    LET rows == IF IsDate(startDate) /\ IsDate(endDate)
                THEN SelectSeq(weightRecords, LAMBDA r :
                         /\ r.date >= toISODate(startDate)
                         /\ r.date <= toISODate(endDate))
                ELSE weightRecords
    IN  SortSeq(rows, ByDateDescCreatedDesc)

\* records.reduce((sum, record) => sum + parseFloat(record.weight), 0)
RECURSIVE SumWeights(_)
SumWeights(rows) ==
    IF rows = <<>> THEN 0
    ELSE SumWeights(SubSeq(rows, 1, Len(rows) - 1)) + parseFloat(rows[Len(rows)].weight)

\* getUserDailyStats without the userId condition of its where clause.
getUserDailyStats_AnyUser(userId, date) ==
    LET dateStr == toISODate(date)
        records == SortSeq(
            SelectSeq(weightRecords, LAMBDA r : r.date = dateStr),
            ByCreatedDesc)
    IN  [totalWeight |-> SumWeights(records),
         recordCount |-> Len(records),
         records |-> records]

getUserDailyStats(userId, date) ==
    LET dateStr == toISODate(date)
        records == SortSeq(
            SelectSeq(weightRecords, LAMBDA r : r.userId = userId /\ r.date = dateStr),
            ByCreatedDesc)
    IN  [totalWeight |-> SumWeights(records),
         recordCount |-> Len(records),
         records |-> records]

\* The reduce of getUserMonthlyStats without the lookup of acc[date]: every
\* record opens an entry of its own.
GroupByDate_PerRecord(rows) ==
    [i \in 1..Len(rows) |->
        [date |-> rows[i].date,
         weight |-> parseFloat(rows[i].weight),
         recordCount |-> 1]]

\* The reduce of getUserMonthlyStats: one entry per date string, in the order
\* the dates first appear (Object.values keeps insertion order).
RECURSIVE GroupByDate(_)
GroupByDate(rows) ==
    IF rows = <<>> THEN <<>>
    ELSE LET acc == GroupByDate(SubSeq(rows, 1, Len(rows) - 1))
             record == rows[Len(rows)]
             date == record.date
         IN  IF \E i \in 1..Len(acc) : acc[i].date = date
             THEN [i \in 1..Len(acc) |->
                     IF acc[i].date = date
                     THEN [date |-> date,
                           weight |-> acc[i].weight + parseFloat(record.weight),
                           recordCount |-> acc[i].recordCount + 1]
                     ELSE acc[i]]
             ELSE Append(acc, [date |-> date,
                               weight |-> parseFloat(record.weight),
                               recordCount |-> 1])

\* The grouped entries left in the order Object.values gives them.
SortByDateAsc_Unsorted(groups) == groups

\* .sort((a, b) => a.date.localeCompare(b.date))
SortByDateAsc(groups) == SortSeq(groups, LAMBDA a, b : a.date < b.date)

\* The bounds getUserMonthlyStats passes to getUserWeightRecords.
MonthStartDate(year, month) == DateLocal(year, month - 1, 1, tz)
MonthEndDate(year, month) == DateLocal(year, month, 0, tz)

getUserMonthlyStats(userId, year, month) ==
    LET startDate == MonthStartDate(year, month)
        endDate == MonthEndDate(year, month)
        records == getUserWeightRecords(userId, startDate, endDate)
    IN  [totalWeight |-> SumWeights(records),
         recordCount |-> Len(records),
         dailyStats |-> SortByDateAsc(GroupByDate(records))]

\* daysInMonth read off the ISO (UTC) date of monthEnd instead of getDate().
DaysInCurrentMonth_Utc(monthEnd) == DayOf(toISODate(monthEnd))

\* const daysInMonth = monthEnd.getDate()
DaysInCurrentMonth(monthEnd) == getDate(monthEnd, tz)

\* totalMonth / daysInMonth, kept as the fraction (a floating division).
Quotient(total, days) == [num |-> total, den |-> days]

\* getDashboardStats counting the users getActiveUsers lists (no admins).
getDashboardStats_Workers(today) ==
    LET todayStr == toISODate(today)
        monthStart == DateLocal(getFullYear(today, tz), getMonth(today, tz), 1, tz)
        monthEnd == DateLocal(getFullYear(today, tz), getMonth(today, tz) + 1, 0, tz)
        todayRecords == SelectSeq(weightRecords, LAMBDA r : r.date = todayStr)
        monthRecords == getAllWeightRecords(monthStart, monthEnd)
        totalMonth == SumWeights(monthRecords)
    IN  [totalToday |-> SumWeights(todayRecords),
         activeUsers |-> Cardinality(getActiveUsers),
         avgDaily |-> Quotient(totalMonth, DaysInCurrentMonth(monthEnd)),
         totalMonth |-> totalMonth]

getDashboardStats(today) ==
    LET todayStr == toISODate(today)
        monthStart == DateLocal(getFullYear(today, tz), getMonth(today, tz), 1, tz)
        monthEnd == DateLocal(getFullYear(today, tz), getMonth(today, tz) + 1, 0, tz)
        todayRecords == SelectSeq(weightRecords, LAMBDA r : r.date = todayStr)
        monthRecords == getAllWeightRecords(monthStart, monthEnd)
        totalMonth == SumWeights(monthRecords)
    IN  [totalToday |-> SumWeights(todayRecords),
         activeUsers |-> Cardinality({u \in users : u.isActive = TRUE}),
         avgDaily |-> Quotient(totalMonth, DaysInCurrentMonth(monthEnd)),
         totalMonth |-> totalMonth]

\* getUserSummaryStats whose query for today lacks the userId condition.
getUserSummaryStats_AnyUser(userId, today) ==
    LET todayStr == toISODate(today)
        monthStart == DateLocal(getFullYear(today, tz), getMonth(today, tz), 1, tz)
        monthEnd == DateLocal(getFullYear(today, tz), getMonth(today, tz) + 1, 0, tz)
        todayRecords == SelectSeq(weightRecords, LAMBDA r : r.date = todayStr)
        monthRecords == getUserWeightRecords(userId, monthStart, monthEnd)
        totalMonth == SumWeights(monthRecords)
    IN  [totalToday |-> SumWeights(todayRecords),
         totalMonth |-> totalMonth,
         avgDaily |-> Quotient(totalMonth, DaysInCurrentMonth(monthEnd))]

getUserSummaryStats(userId, today) ==
    LET todayStr == toISODate(today)
        monthStart == DateLocal(getFullYear(today, tz), getMonth(today, tz), 1, tz)
        monthEnd == DateLocal(getFullYear(today, tz), getMonth(today, tz) + 1, 0, tz)
        todayRecords == SelectSeq(weightRecords,
                            LAMBDA r : r.userId = userId /\ r.date = todayStr)
        monthRecords == getUserWeightRecords(userId, monthStart, monthEnd)
        totalMonth == SumWeights(monthRecords)
    IN  [totalToday |-> SumWeights(todayRecords),
         totalMonth |-> totalMonth,
         avgDaily |-> Quotient(totalMonth, DaysInCurrentMonth(monthEnd))]
\* ---------------------------------------------------- storage: the writes

Missing == "<missing>"      \* a required string field the body does not carry

\* A users table whose cpf column was declared without .unique().
UsersConstraintOk_NoUnique(rows) ==
    /\ \A a, b \in rows : a.id = b.id => a = b
    /\ \A a \in rows : CpfLen(a.cpf) <= 11

\* The unique constraints of the users table (primary key, cpf) and the
\* width of cpf, which the database checks on every write.
UsersConstraintOk(rows) ==
    /\ \A a, b \in rows : (a.id = b.id \/ a.cpf = b.cpf) => a = b
    /\ \A a \in rows : CpfLen(a.cpf) <= 11

\* weight_records.user_id and weight_records.created_by reference users.id
\* (no action on update or delete): a write to users that would leave a
\* record without its user is refused by the database.
ForeignKeysOk(rows) ==
    \A i \in 1..Len(weightRecords) :
        /\ \E u \in rows : u.id = weightRecords[i].userId
        /\ \E u \in rows : u.id = weightRecords[i].createdBy

\* db.insert(users).values(userData): id from the serial sequence, the
\* column defaults for the flags the body leaves out.
NewUserRow(userData, id) ==
    [id |-> id,
     cpf |-> userData.cpf,
     password |-> userData.password,
     firstName |-> userData.firstName,
     lastName |-> userData.lastName,
     isAdmin |-> IF "isAdmin" \in DOMAIN userData THEN userData.isAdmin ELSE FALSE,
     workType |-> IF "workType" \in DOMAIN userData THEN userData.workType ELSE "null",
     isActive |-> IF "isActive" \in DOMAIN userData THEN userData.isActive ELSE TRUE]

\* The table after createUser, were the insert to succeed.
createUser(userData) == users \cup {NewUserRow(userData, userSeq + 1)}

\* .set({...updates}).where(eq(users.id, id)): every column the body names.
ApplyUpdates(u, updates) ==
    [f \in DOMAIN u |-> IF f \in DOMAIN updates THEN updates[f] ELSE u[f]]

\* The table after updateUser, were the update to succeed.
updateUser(id, updates) ==
    {IF u.id = id THEN ApplyUpdates(u, updates) ELSE u : u \in users}

\* db.insert(weightRecords).values({...record, weight: record.weight.toString()})
\* The row returned: id from the serial sequence (no row is ever deleted),
\* createdAt from defaultNow(), kept as the position in insertion order.
createWeightRecord(record) ==
    [id |-> Len(weightRecords) + 1,
     userId |-> record.userId,
     weight |-> ToDecimal2(record.weight),
     date |-> record.date,
     notes |-> record.notes,
     createdAt |-> Len(weightRecords) + 1,
     createdBy |-> record.createdBy]

\* ------------------------------------------------------- schema.ts: zod

\* loginSchema: cpf of length 11, password of length >= 1.
loginSchemaOk(body) ==
    /\ body.cpf # Missing /\ CpfLen(body.cpf) = 11
    /\ body.password # Missing /\ body.password # ""

\* insertUserSchema: the four required strings; cpf at most 11 characters.
insertUserSchemaOk(body) ==
    /\ \A f \in {"cpf", "password", "firstName", "lastName"} :
          f \in DOMAIN body /\ body[f] # Missing
    /\ CpfLen(body.cpf) <= 11
    /\ "workType" \in DOMAIN body => body.workType \in WorkTypes \cup {"null"}

\* An insert schema without .positive(): any number passes.
insertWeightRecordSchemaOk_Any(data) == TRUE

\* insertWeightRecordSchema.parse: weight must be positive; keys that are
\* not columns of the insert schema (workType, id, createdAt) are stripped.
insertWeightRecordSchemaOk(data) == data.weight > 0

insertWeightRecordSchemaParse(data) ==
    [userId |-> data.userId,
     weight |-> data.weight,
     date |-> data.date,
     notes |-> data.notes,
     createdBy |-> data.createdBy]

\* ------------------------------------------------------ auth.ts middleware

OK == 200

\* isAuthenticated without its test: every request passes.
isAuthenticated_NoCheck(sid) == TRUE

\* isAuthenticated that also wants the session's user stored as active.
isAuthenticated_Active(sid) ==
    session[sid] # NoUser /\ \E u \in getUser(session[sid]) : u.isActive = TRUE

\* isAuthenticated: TRUE is next().
isAuthenticated(sid) == session[sid] # NoUser

\* isAdmin that only looks the user up and forgets the flag.
isAdmin_AnyUser(sid) ==
    IF session[sid] = NoUser THEN 401
    ELSE IF getUser(session[sid]) = {} THEN 403 ELSE OK

\* isAdmin: the status it answers with, or OK for next().
isAdmin(sid) ==
    IF session[sid] = NoUser THEN 401
    ELSE LET user == getUser(session[sid]) IN
         IF user = {} \/ \E u \in user : ~u.isAdmin THEN 403
         ELSE OK

\* The self-or-admin test with || for &&: an admin is denied other users' data.
AccessDenied_Or(sid, userId) ==
    LET currentUserId == session[sid]
        currentUser == getUser(currentUserId)
    IN  userId # currentUserId \/ ~(\E u \in currentUser : u.isAdmin)

\* The self-or-admin test of the four per-user read routes: TRUE is denied.
AccessDenied(sid, userId) ==
    LET currentUserId == session[sid]
        currentUser == getUser(currentUserId)
    IN  userId # currentUserId /\ ~(\E u \in currentUser : u.isAdmin)
\* ------------------------------------------------------------- routes.ts

\* The response of one request: the route, the session it came on, the user
\* id that session held when it arrived, the request's parameters, the
\* status and the JSON body answered (always an object here: an array or a
\* single row is held under one key), and how many storage calls ran before
\* the answer.
Response(op, sid, req, status, body, db) ==
    [op |-> op, sid |-> sid, caller |-> session[sid], req |-> req,
     status |-> status, body |-> body, db |-> db]

\* res.status(...).json({ message })
Message(text) == [message |-> text]

NoParams == [none |-> TRUE]         \* a request without parameters

Unauthorized(op, sid, req) == Response(op, sid, req, 401, Message("Unauthorized"), 0)
AdminRequired(op, sid, req) ==
    Response(op, sid, req, 403, Message("Admin access required"), 1)
Denied(op, sid, req) == Response(op, sid, req, 403, Message("Access denied"), 1)

\* POST /api/login
Login(sid, body) ==
    /\ IF ~loginSchemaOk(body)
       THEN /\ resp' = Response("login", sid, body, 400, Message("Erro no login"), 0)
            /\ UNCHANGED session
       ELSE LET user == validateUser(body.cpf, body.password) IN
            IF user = {}
            THEN /\ resp' = Response("login", sid, body, 401,
                                 Message("CPF ou senha invalidos"), 1)
                 /\ UNCHANGED session
            ELSE \E u \in user :
                 /\ session' = [session EXCEPT ![sid] = u.id]
                 /\ resp' = Response("login", sid, body, 200, u, 1)
    /\ UNCHANGED <<users, userSeq, weightRecords, tz, pending>>

\* POST /api/logout
Logout(sid) ==
    /\ session' = [session EXCEPT ![sid] = NoUser]
    /\ resp' = Response("logout", sid, NoParams, 200, Message("Logout successful"), 0)
    /\ UNCHANGED <<users, userSeq, weightRecords, tz, pending>>

\* GET /api/auth/user
GetAuthUser(sid) ==
    /\ resp' = IF ~isAuthenticated(sid) THEN Unauthorized("auth/user", sid, NoParams)
               ELSE Response("auth/user", sid, NoParams, 200,
                             [user |-> getUser(session[sid])], 1)
    /\ UNCHANGED <<users, userSeq, weightRecords, session, tz, pending>>

\* GET /api/users
GetUsers(sid) ==
    /\ resp' = IF ~isAuthenticated(sid) THEN Unauthorized("users", sid, NoParams)
               ELSE IF isAdmin(sid) # OK THEN AdminRequired("users", sid, NoParams)
               ELSE Response("users", sid, NoParams, 200, [users |-> getAllUsers], 2)
    /\ UNCHANGED <<users, userSeq, weightRecords, session, tz, pending>>

\* GET /api/users/active
GetActiveUsers(sid) ==
    /\ resp' = IF ~isAuthenticated(sid) THEN Unauthorized("users/active", sid, NoParams)
               ELSE Response("users/active", sid, NoParams, 200,
                             [users |-> getActiveUsers], 1)
    /\ UNCHANGED <<users, userSeq, weightRecords, session, tz, pending>>

\* GET /api/users/public
SafeUser(user) ==
    [id |-> user.id, firstName |-> user.firstName,
     lastName |-> user.lastName, workType |-> user.workType]

GetPublicUsers(sid) ==
    /\ resp' = Response("users/public", sid, NoParams, 200,
                        [users |-> {SafeUser(u) : u \in getActiveUsers}], 1)
    /\ UNCHANGED <<users, userSeq, weightRecords, session, tz, pending>>

\* POST /api/users
PostUser(sid, body) ==
    /\ IF ~isAuthenticated(sid)
       THEN /\ resp' = Unauthorized("createUser", sid, body)
            /\ UNCHANGED <<users, userSeq>>
       ELSE IF isAdmin(sid) # OK
       THEN /\ resp' = AdminRequired("createUser", sid, body)
            /\ UNCHANGED <<users, userSeq>>
       ELSE IF ~insertUserSchemaOk(body)
       THEN /\ resp' = Response("createUser", sid, body, 400, Message("Invalid data"), 1)
            /\ UNCHANGED <<users, userSeq>>
       ELSE /\ userSeq' = userSeq + 1
            /\ IF UsersConstraintOk(createUser(body))
               THEN /\ users' = createUser(body)
                    /\ resp' = Response("createUser", sid, body, 200,
                                        NewUserRow(body, userSeq + 1), 2)
               ELSE /\ users' = users
                    /\ resp' = Response("createUser", sid, body, 500,
                                        Message("Failed to create user"), 2)
    /\ UNCHANGED <<weightRecords, session, tz, pending>>

\* PATCH /api/users/:id
PatchUser(sid, id, updates) ==
    /\ IF ~isAuthenticated(sid)
       THEN /\ resp' = Unauthorized("updateUser", sid, [id |-> id, body |-> updates])
            /\ UNCHANGED users
       ELSE IF isAdmin(sid) # OK
       THEN /\ resp' = AdminRequired("updateUser", sid, [id |-> id, body |-> updates])
            /\ UNCHANGED users
       ELSE IF /\ UsersConstraintOk(updateUser(id, updates))
               /\ ForeignKeysOk(updateUser(id, updates))
       THEN /\ users' = updateUser(id, updates)
            /\ resp' = Response("updateUser", sid, [id |-> id, body |-> updates], 200,
                                [user |-> {ApplyUpdates(u, updates) : u \in getUser(id)}], 2)
       ELSE /\ users' = users
            /\ resp' = Response("updateUser", sid, [id |-> id, body |-> updates], 500,
                                Message("Failed to update user"), 2)
    /\ UNCHANGED <<userSeq, weightRecords, session, tz, pending>>

\* POST /api/weight-records: the object handed to insertWeightRecordSchema,
\* {...req.body, userId, weight, workType, createdBy}. The keys after the
\* spread override what the body carries under the same name.
\* The same object with the spread last: the body's own createdBy wins.
WeightRecordInput_BodyWins(body, workType, callerId) ==
    [userId |-> body.userId,
     weight |-> body.weight,
     date |-> body.date,
     notes |-> body.notes,
     workType |-> workType,
     createdBy |-> IF body.createdBy # Absent THEN body.createdBy ELSE callerId]

WeightRecordInput(body, workType, callerId) ==
    [userId |-> body.userId,
     weight |-> body.weight,
     date |-> body.date,
     notes |-> body.notes,
     workType |-> workType,
     createdBy |-> callerId]

\* A handler that replaces the stored records with the new one (an upsert)
\* and tests nothing else than the body's fields.
PostWeightRecord_Overwrite(sid, body) ==
    LET raw == WeightRecordInput(body, "null", session[sid])
        record == createWeightRecord(insertWeightRecordSchemaParse(raw))
    IN  /\ body.userId # Absent /\ body.weight > 0 /\ body.date # Absent
        /\ weightRecords' = <<record>>
        /\ resp' = Response("createRecord", sid, body, 200, record, 3)
        /\ UNCHANGED <<users, userSeq, session, tz, pending>>

PostWeightRecord(sid, body) ==
    /\ IF ~isAuthenticated(sid)
       THEN /\ resp' = Unauthorized("createRecord", sid, body)
            /\ UNCHANGED weightRecords
       ELSE IF isAdmin(sid) # OK
       THEN /\ resp' = AdminRequired("createRecord", sid, body)
            /\ UNCHANGED weightRecords
       ELSE IF body.userId = Absent \/ body.weight = Absent \/ body.date = Absent
       THEN /\ resp' = Response("createRecord", sid, body, 400,
                                Message("Missing required fields: userId, weight, date"), 1)
            /\ UNCHANGED weightRecords
       ELSE LET user == getUser(body.userId) IN
            IF user = {}
            THEN /\ resp' = Response("createRecord", sid, body, 400,
                                  Message("User not found"), 2)
                 /\ UNCHANGED weightRecords
            ELSE \E u \in user :
                 LET raw == WeightRecordInput(body, u.workType, session[sid])
                 IN  IF ~insertWeightRecordSchemaOk(raw)
                     THEN /\ resp' = Response("createRecord", sid, body, 400,
                                              Message("Invalid data"), 2)
                          /\ UNCHANGED weightRecords
                     ELSE LET data == insertWeightRecordSchemaParse(raw)
                              record == createWeightRecord(data)
                          IN  /\ weightRecords' = Append(weightRecords, record)
                              /\ resp' = Response("createRecord", sid, body, 200,
                                                  record, 3)
    /\ UNCHANGED <<users, userSeq, session, tz, pending>>

\* POST /api/weight-records as Express runs it, in two steps with an await
\* between them. First the middleware: isAuthenticated, then isAdmin, which
\* reads the caller's row. A request let through waits for its handler with
\* the session it was loaded with (req.session).
PostWeightRecordBegin(sid, body) ==
    /\ IF ~isAuthenticated(sid)
       THEN /\ resp' = Unauthorized("createRecord", sid, body)
            /\ UNCHANGED pending
       ELSE IF isAdmin(sid) # OK
       THEN /\ resp' = AdminRequired("createRecord", sid, body)
            /\ UNCHANGED pending
       ELSE /\ pending' = pending \cup {[sid |-> sid, caller |-> session[sid],
                                         body |-> body]}
            /\ UNCHANGED resp
    /\ UNCHANGED <<users, userSeq, weightRecords, session, tz>>

\* Then the handler, for a request p that the middleware let through: the
\* same tests and the same insert as PostWeightRecord, with createdBy taken
\* from the request's session.
PostWeightRecordEnd(p) ==
    LET answer(status, body, db) ==
            [Response("createRecord", p.sid, p.body, status, body, db)
                EXCEPT !.caller = p.caller]
    IN
    /\ p \in pending
    /\ pending' = pending \ {p}
    /\ IF p.body.userId = Absent \/ p.body.weight = Absent \/ p.body.date = Absent
       THEN /\ resp' = answer(400,
                           Message("Missing required fields: userId, weight, date"), 1)
            /\ UNCHANGED weightRecords
       ELSE LET user == getUser(p.body.userId) IN
            IF user = {}
            THEN /\ resp' = answer(400, Message("User not found"), 2)
                 /\ UNCHANGED weightRecords
            ELSE \E u \in user :
                 LET raw == WeightRecordInput(p.body, u.workType, p.caller)
                 IN  IF ~insertWeightRecordSchemaOk(raw)
                     THEN /\ resp' = answer(400, Message("Invalid data"), 2)
                          /\ UNCHANGED weightRecords
                     ELSE LET data == insertWeightRecordSchemaParse(raw)
                              record == createWeightRecord(data)
                          IN  /\ weightRecords' = Append(weightRecords, record)
                              /\ resp' = answer(200, record, 3)
    /\ UNCHANGED <<users, userSeq, session, tz>>

\* GET /api/weight-records/user/:userId?startDate&endDate
QueryDate(q) == IF q = Absent THEN NoDate ELSE DateFromString(q)

\* A handler that answers the user's records and takes them off the table.
GetUserRecords_Consume(sid, userId, startDate, endDate) ==
    LET req == [userId |-> userId, startDate |-> startDate, endDate |-> endDate] IN
    /\ resp' = Response("records", sid, req, 200,
                 [records |-> getUserWeightRecords(userId, QueryDate(startDate),
                                                   QueryDate(endDate))], 2)
    /\ weightRecords' = SelectSeq(weightRecords, LAMBDA r : r.userId # userId)
    /\ UNCHANGED <<users, userSeq, session, tz, pending>>

GetUserRecords(sid, userId, startDate, endDate) ==
    LET req == [userId |-> userId, startDate |-> startDate, endDate |-> endDate] IN
    /\ resp' = IF ~isAuthenticated(sid) THEN Unauthorized("records", sid, req)
               ELSE IF AccessDenied(sid, userId) THEN Denied("records", sid, req)
               ELSE Response("records", sid, req, 200,
                        [records |-> getUserWeightRecords(userId, QueryDate(startDate),
                                                          QueryDate(endDate))], 2)
    /\ UNCHANGED <<users, userSeq, weightRecords, session, tz, pending>>

\* GET /api/weight-records/daily/:userId/:date
GetDaily(sid, userId, date) ==
    LET req == [userId |-> userId, date |-> date] IN
    /\ resp' = IF ~isAuthenticated(sid) THEN Unauthorized("daily", sid, req)
               ELSE IF AccessDenied(sid, userId) THEN Denied("daily", sid, req)
               ELSE Response("daily", sid, req, 200,
                        getUserDailyStats(userId, DateFromString(date)), 2)
    /\ UNCHANGED <<users, userSeq, weightRecords, session, tz, pending>>

\* GET /api/weight-records/monthly/:userId/:year/:month
GetMonthly(sid, userId, year, month) ==
    LET req == [userId |-> userId, year |-> year, month |-> month] IN
    /\ resp' = IF ~isAuthenticated(sid) THEN Unauthorized("monthly", sid, req)
               ELSE IF AccessDenied(sid, userId) THEN Denied("monthly", sid, req)
               ELSE Response("monthly", sid, req, 200,
                        getUserMonthlyStats(userId, year, month), 2)
    /\ UNCHANGED <<users, userSeq, weightRecords, session, tz, pending>>

\* GET /api/dashboard/stats; today is what new Date() reads off the clock.
GetDashboard(sid, today) ==
    LET req == [today |-> today] IN
    /\ resp' = IF ~isAuthenticated(sid) THEN Unauthorized("dashboard", sid, req)
               ELSE IF isAdmin(sid) # OK THEN AdminRequired("dashboard", sid, req)
               ELSE Response("dashboard", sid, req, 200, getDashboardStats(today), 2)
    /\ UNCHANGED <<users, userSeq, weightRecords, session, tz, pending>>

\* GET /api/users/:userId/summary
GetSummary(sid, userId, today) ==
    LET req == [userId |-> userId, today |-> today] IN
    /\ resp' = IF ~isAuthenticated(sid) THEN Unauthorized("summary", sid, req)
               ELSE IF AccessDenied(sid, userId) THEN Denied("summary", sid, req)
               ELSE Response("summary", sid, req, 200,
                        getUserSummaryStats(userId, today), 2)
    /\ UNCHANGED <<users, userSeq, weightRecords, session, tz, pending>>

\* ------------------------------------------------------ the requests drawn

Sessions == {"s1", "s2"}

\* The administrator add-admin-user.ts sets up.
AdminRow ==
    [id |-> 1, cpf |-> "11658845935", password |-> "pw1",
     firstName |-> "Usuario", lastName |-> "Admin",
     isAdmin |-> TRUE, workType |-> "null", isActive |-> TRUE]

Worker(cpf, workType) ==
    [cpf |-> cpf, password |-> "pw2", firstName |-> "Ana", lastName |-> "Silva",
     workType |-> workType]

UserIds == 1..MaxUsers

LoginBodies ==
    {[cpf |-> "11658845935", password |-> "pw1"],
     [cpf |-> "11658845935", password |-> "bad"],
     [cpf |-> "22222222222", password |-> "pw2"],
     [cpf |-> "33333333333", password |-> "pw2"],
     [cpf |-> "123", password |-> "pw1"]}

NewUserBodies ==
    {Worker("22222222222", "filetagem"),
     Worker("33333333333", "espinho"),
     Worker("11658845935", "espinho"),
     [cpf |-> "22222222222", firstName |-> "Ana", lastName |-> "Silva"]}

UpdateBodies ==
    {[isAdmin |-> TRUE], [isAdmin |-> FALSE], [isActive |-> FALSE]}

WeightBody(userId, weight, date, createdBy) ==
    [userId |-> userId, weight |-> weight, date |-> date, notes |-> "",
     createdBy |-> createdBy]

WeightBodies ==
    {WeightBody(2, 12500, 20240315, Absent),
     WeightBody(2, 12500, 20240315, 2),
     WeightBody(2, Absent, 20240315, Absent),
     WeightBody(2, 0 - 1000, 20240315, Absent),
     WeightBody(MaxUsers + 1, 300, 20240315, Absent)}

\* -------------------------------------------------------- specification

\* No response in flight: the client has read the last one.
Idle == [op |-> "none", sid |-> "s1", caller |-> NoUser, req |-> NoParams,
         status |-> 0, body |-> Message(""), db |-> 0]

\* The client takes the response off the wire.
Deliver ==
    /\ resp.op # "none"
    /\ resp' = Idle
    /\ UNCHANGED <<users, userSeq, weightRecords, session, tz, pending>>

\* A database holding the administrator alone, no session bound, the server
\* in UTC (the zones matter to the aggregations only: see SpecStats).
Init ==
    /\ users = {AdminRow}
    /\ userSeq = 1
    /\ weightRecords = <<>>
    /\ session = [s \in Sessions |-> NoUser]
    /\ tz = 0
    /\ resp = Idle
    /\ pending = {}

\* One request is answered at a time: the handlers share nothing but the
\* database, and each is taken here as one step.
Ready == resp.op = "none"

Next ==
    \/ \E sid \in Sessions, body \in LoginBodies : Ready /\ Login(sid, body)
    \/ \E sid \in Sessions : Ready /\ Logout(sid)
    \/ \E sid \in Sessions : Ready /\ GetAuthUser(sid)
    \/ \E sid \in Sessions : Ready /\ GetUsers(sid)
    \/ \E sid \in Sessions : Ready /\ GetActiveUsers(sid)
    \/ \E sid \in Sessions : Ready /\ GetPublicUsers(sid)
    \/ \E sid \in Sessions, body \in NewUserBodies :
          Ready /\ userSeq < MaxUsers /\ PostUser(sid, body)
    \/ \E sid \in Sessions, id \in UserIds, body \in UpdateBodies :
          Ready /\ PatchUser(sid, id, body)
    \/ \E sid \in Sessions, body \in WeightBodies :
          Ready /\ Len(weightRecords) < MaxRecords /\ PostWeightRecord(sid, body)
    \/ \E sid \in Sessions, id \in UserIds :
          Ready /\ GetUserRecords(sid, id, Absent, Absent)
    \/ \E sid \in Sessions, id \in UserIds : Ready /\ GetDaily(sid, id, 20240315)
    \/ \E sid \in Sessions, id \in UserIds : Ready /\ GetMonthly(sid, id, 2024, 3)
    \/ \E sid \in Sessions : Ready /\ GetDashboard(sid, Noon)
    \/ \E sid \in Sessions, id \in UserIds : Ready /\ GetSummary(sid, id, Noon)
    \/ Deliver

Spec == Init /\ [][Next]_vars

\* ------------------------------------- specification of the aggregations
\* The same handlers, on a database that holds an administrator (signed in on
\* s1) and two workers, in any zone, with records around the ends of months.

StatUsers ==
    {AdminRow,
     NewUserRow(Worker("22222222222", "filetagem"), 2),
     NewUserRow(Worker("33333333333", "espinho"), 3)}

StatDates == {20230228, 20240131, 20240201, 20240229, 20240301}

StatMonths == {<<2023, 2>>, <<2023, 12>>, <<2024, 1>>, <<2024, 2>>, <<2024, 3>>}

StatBodies ==
    {WeightBody(2, 50, 20230228, Absent),
     WeightBody(2, 12500, 20240131, Absent),
     WeightBody(2, 300, 20240201, Absent),
     WeightBody(2, 1000, 20240229, Absent),
     WeightBody(3, 700, 20240229, Absent),
     WeightBody(2, 2004, 20240301, Absent)}

StatRange == {Absent, 20240201, 20240229}

InitStats ==
    /\ users = StatUsers
    /\ userSeq = 3
    /\ weightRecords = <<>>
    /\ session = [s \in Sessions |-> IF s = "s1" THEN 1 ELSE NoUser]
    /\ tz \in Zones
    /\ resp = Idle
    /\ pending = {}

NextStats ==
    \/ \E body \in StatBodies :
          Ready /\ Len(weightRecords) < MaxStatRecords /\ PostWeightRecord("s1", body)
    \/ \E id \in {2, 3}, s \in StatRange, e \in StatRange :
          Ready /\ GetUserRecords("s1", id, s, e)
    \/ \E id \in {2, 3}, d \in StatDates : Ready /\ GetDaily("s1", id, d)
    \/ \E id \in {2, 3}, ym \in StatMonths :
          Ready /\ GetMonthly("s1", id, ym[1], ym[2])
    \/ \E t \in Instants : Ready /\ GetDashboard("s1", t)
    \/ \E id \in {2, 3}, t \in Instants : Ready /\ GetSummary("s1", id, t)
    \/ Deliver

SpecStats == InitStats /\ [][NextStats]_vars

\* ------------------------------------------- specification of the writes
\* The same handlers, with the administrator signed in on s1 and one worker
\* stored: users are created and updated with identifiers of every length,
\* taken or free, and with a new id; records are submitted with every kind
\* of weight, with fields missing and for a user id that may not exist.

WriteUsers == {AdminRow, NewUserRow(Worker("22222222222", "filetagem"), 2)}

WriteUserBodies ==
    {Worker("33333333333", "espinho"),
     Worker("22222222222", "espinho"),
     Worker("123", "espinho"),
     Worker("123456789012", "espinho")}

WritePatchBodies ==
    {[cpf |-> "33333333333"],
     [cpf |-> "11658845935"],
     [cpf |-> "123"],
     [cpf |-> "123456789012"],
     [id |-> 3],
     [lastName |-> "Souza"]}

WriteRecordBodies ==
    {WeightBody(2, 12500, 20240315, Absent),
     WeightBody(2, 4, 20240315, Absent),
     WeightBody(2, 0 - 1000, 20240315, Absent),
     WeightBody(2, Absent, 20240315, Absent),
     WeightBody(Absent, 12500, 20240315, Absent),
     WeightBody(2, 12500, Absent, Absent),
     WeightBody(3, 700, 20240316, Absent)}

InitWrites ==
    /\ users = WriteUsers
    /\ userSeq = 2
    /\ weightRecords = <<>>
    /\ session = [s \in Sessions |-> IF s = "s1" THEN 1 ELSE NoUser]
    /\ tz = 0
    /\ resp = Idle
    /\ pending = {}

NextWrites ==
    \/ \E body \in WriteUserBodies :
          Ready /\ userSeq < MaxWriteUsers /\ PostUser("s1", body)
    \/ \E id \in {2, 3}, body \in WritePatchBodies :
          Ready /\ PatchUser("s1", id, body)
    \/ \E body \in WriteRecordBodies :
          Ready /\ Len(weightRecords) < MaxWriteRecords /\ PostWeightRecord("s1", body)
    \/ Deliver

SpecWrites == InitWrites /\ [][NextWrites]_vars

\* -------------------------------------------- specification of the reads
\* The database and the requests of SpecStats, with the listing of users,
\* where a client may send a read again while its answer is still on the
\* wire: two executions of one read with nothing served between them.

\* The read whose response is in flight is requested again, on the same
\* session and with the same parameters.
Again ==
    /\ ~Ready
    /\ \/ resp.op = "users" /\ GetUsers(resp.sid)
       \/ resp.op = "records" /\ GetUserRecords(resp.sid, resp.req.userId,
                                                resp.req.startDate, resp.req.endDate)
       \/ resp.op = "daily" /\ GetDaily(resp.sid, resp.req.userId, resp.req.date)
       \/ resp.op = "monthly" /\ GetMonthly(resp.sid, resp.req.userId,
                                            resp.req.year, resp.req.month)
       \/ resp.op = "dashboard" /\ GetDashboard(resp.sid, resp.req.today)
       \/ resp.op = "summary" /\ GetSummary(resp.sid, resp.req.userId, resp.req.today)

NextReads ==
    \/ \E body \in StatBodies :
          Ready /\ Len(weightRecords) < MaxReadRecords /\ PostWeightRecord("s1", body)
    \/ Ready /\ GetUsers("s1")
    \/ \E id \in {2, 3}, s \in StatRange, e \in StatRange :
          Ready /\ GetUserRecords("s1", id, s, e)
    \/ \E id \in {2, 3}, d \in StatDates : Ready /\ GetDaily("s1", id, d)
    \/ \E id \in {2, 3}, ym \in StatMonths :
          Ready /\ GetMonthly("s1", id, ym[1], ym[2])
    \/ \E t \in Instants : Ready /\ GetDashboard("s1", t)
    \/ \E id \in {2, 3}, t \in Instants : Ready /\ GetSummary("s1", id, t)
    \/ Again
    \/ Deliver

SpecReads == InitStats /\ [][NextReads]_vars

\* ----------------------------------- specification of sessions and flags
\* The same handlers on a database of the administrator and one worker,
\* nobody signed in. Requests follow one another directly, so that resp is
\* the request served last when the next one arrives: logins and logouts,
\* the current user, an admin-only listing, own and other users' summaries,
\* changes of the admin and active flags and of the worker's id, and the
\* creation of a record.

AuthLoginBodies ==
    {[cpf |-> "11658845935", password |-> "pw1"],
     [cpf |-> "22222222222", password |-> "pw2"],
     [cpf |-> "22222222222", password |-> "bad"]}

AuthRecordBody == WeightBody(2, 12500, 20240315, Absent)

InitAuth ==
    /\ users = WriteUsers
    /\ userSeq = 2
    /\ weightRecords = <<>>
    /\ session = [s \in Sessions |-> NoUser]
    /\ tz = 0
    /\ resp = Idle
    /\ pending = {}

NextAuth ==
    \/ \E sid \in Sessions, body \in AuthLoginBodies : Login(sid, body)
    \/ \E sid \in Sessions : Logout(sid)
    \/ \E sid \in Sessions : GetAuthUser(sid)
    \/ \E sid \in Sessions : GetUsers(sid)
    \/ \E sid \in Sessions, id \in {1, 2} : GetSummary(sid, id, Noon)
    \/ \E sid \in Sessions, id \in {1, 2}, body \in UpdateBodies :
          PatchUser(sid, id, body)
    \/ \E sid \in Sessions : PatchUser(sid, 2, [id |-> 3])
    \/ \E sid \in Sessions :
          Len(weightRecords) < MaxAuthRecords /\ PostWeightRecord(sid, AuthRecordBody)

SpecAuth == InitAuth /\ [][NextAuth]_vars

\* ------------------------------- specification of the interleaved handlers
\* The administrator signed in on s1 and one worker: create-weight-record
\* requests run in their two steps, and update-user requests are served
\* between the steps as well as before and after them.

RaceBodies == {WeightBody(2, 12500, 20240315, Absent),
               WeightBody(3, 700, 20240316, Absent)}

InitRace ==
    /\ users = WriteUsers
    /\ userSeq = 2
    /\ weightRecords = <<>>
    /\ session = [s \in Sessions |-> IF s = "s1" THEN 1 ELSE NoUser]
    /\ tz = 0
    /\ resp = Idle
    /\ pending = {}

NextRace ==
    \/ \E sid \in Sessions, body \in RaceBodies :
          /\ Cardinality(pending) < MaxPending
          /\ Len(weightRecords) + Cardinality(pending) < MaxRaceRecords
          /\ PostWeightRecordBegin(sid, body)
    \/ \E p \in pending : PostWeightRecordEnd(p)
    \/ \E id \in {1, 2}, body \in UpdateBodies : PatchUser("s1", id, body)

SpecRace == InitRace /\ [][NextRace]_vars

\* ================================================================ claims

PerUserReads == {"records", "daily", "monthly", "summary"}
AdminOps == {"users", "createUser", "updateUser", "createRecord", "dashboard"}
SessionOps == PerUserReads \cup AdminOps \cup {"auth/user", "users/active"}

\* The stored admin flag of the user with this id (false when there is none).
StoredAdmin(id) == \E u \in users : u.id = id /\ u.isAdmin = TRUE

\* C1: a per-user read (list records, daily, monthly, summary) from an
\* authenticated caller c for target t is served if and only if c = t or c's
\* stored admin flag is true; otherwise it is answered 403 with no data.
\* (The reads change neither table nor session, so the flag read here is the
\* one the handler read.)
C1_SelfOrAdmin ==
    (resp.op \in PerUserReads /\ resp.caller # NoUser) =>
        /\ (resp.status = 200) <=>
              (resp.caller = resp.req.userId \/ StoredAdmin(resp.caller))
        /\ resp.status # 200 => (resp.status = 403 /\ resp.body = Message("Access denied"))

\* C1 witness: a signed-in non-admin asked for another user's daily stats and
\* was refused.
C1_Witness ==
    /\ resp.op = "daily" /\ resp.status = 403
    /\ resp.caller # NoUser /\ ~StoredAdmin(resp.caller)
    /\ resp.caller # resp.req.userId
    /\ \E u \in users : u.id = resp.req.userId

\* C2: an admin-only operation (create user, update user, create weight
\* record, list all users, dashboard stats) answered for a session that does
\* not resolve to a user whose admin flag is true is rejected (401 or 403),
\* changes neither table and carries no user list or dashboard data.
C2_AdminOnly ==
    [][(Ready /\ resp'.op \in AdminOps
            /\ ~StoredAdmin(session[resp'.sid])) =>
          /\ resp'.status \in {401, 403}
          /\ resp'.body \in {Message("Unauthorized"), Message("Admin access required")}
          /\ users' = users
          /\ weightRecords' = weightRecords]_vars

\* C2 witness: a signed-in non-admin asked to create a user and got 403.
C2_Witness ==
    /\ resp.op = "createUser" /\ resp.status = 403
    /\ resp.caller # NoUser /\ ~StoredAdmin(resp.caller)

\* C3: every operation that requires a session, asked with no user id bound
\* to the session, is answered 401 Unauthorized before any storage call.
C3_Unauthorized ==
    (resp.op \in SessionOps /\ resp.caller = NoUser) =>
        (resp.status = 401 /\ resp.body = Message("Unauthorized") /\ resp.db = 0)

\* C3 witness: a create-weight-record request on an unbound session, refused.
C3_Witness ==
    /\ resp.op = "createRecord" /\ resp.caller = NoUser /\ resp.status = 401
    /\ resp.req.userId # Absent

\* The rows of weight_records of one user on one date.
RowsOn(userId, date) ==
    {i \in 1..Len(weightRecords) :
        weightRecords[i].userId = userId /\ weightRecords[i].date = date}

\* The value of a stored decimal(10, 2), in hundredths.
Hundredths(w) == w.int * 100 + w.frac

\* C8: after a weight record with weight 12.5 and date 2024-03-15 is created
\* for a user whose workType is "filetagem" and who has no other record on
\* that date, the daily stats of that user and date hold exactly one record,
\* with weight 12.5 and workType "filetagem".
C8_RoundTrip ==
    (/\ resp.op = "daily" /\ resp.status = 200 /\ resp.req.date = 20240315
     /\ \E u \in users : u.id = resp.req.userId /\ u.workType = "filetagem"
     /\ Cardinality(RowsOn(resp.req.userId, 20240315)) = 1) =>
        /\ resp.body.recordCount = 1
        /\ Len(resp.body.records) = 1
        /\ Hundredths(resp.body.records[1].weight) = 1250
        /\ "workType" \in DOMAIN resp.body.records[1]
        /\ resp.body.records[1].workType = "filetagem"

\* C9: a well-formed login succeeds, answers the user and binds the session
\* to that user's id if and only if some user has exactly that identifier and
\* password and is active; otherwise the answer is 401 and the session keeps
\* the binding it had.
C9_Login ==
    (resp.op = "login" /\ CpfLen(resp.req.cpf) = 11 /\ resp.req.password # "") =>
        LET match == {u \in users : /\ u.cpf = resp.req.cpf
                                    /\ u.password = resp.req.password
                                    /\ u.isActive = TRUE}
        IN  IF match # {}
            THEN /\ resp.status = 200
                 /\ resp.body \in match
                 /\ session[resp.sid] = resp.body.id
            ELSE /\ resp.status = 401
                 /\ session[resp.sid] = resp.caller

\* C9 witness: the right identifier and password of a deactivated user were
\* refused with 401.
C9_Witness ==
    /\ resp.op = "login" /\ resp.status = 401
    /\ \E u \in users : /\ u.cpf = resp.req.cpf
                        /\ u.password = resp.req.password
                        /\ u.isActive = FALSE

\* C10: a weight record created through the route has createdBy equal to the
\* id bound to the caller's session and userId equal to the requested target,
\* whatever createdBy the body supplies; it is the row appended to the table.
C10_CreatedBy ==
    (resp.op = "createRecord" /\ resp.status = 200) =>
        /\ resp.body.createdBy = resp.caller
        /\ resp.body.userId = resp.req.userId
        /\ Len(weightRecords) >= 1
        /\ weightRecords[Len(weightRecords)] = resp.body

\* C10 witness: a record was created from a body that named another user as
\* its creator.
C10_Witness ==
    /\ resp.op = "createRecord" /\ resp.status = 200
    /\ resp.req.createdBy # Absent /\ resp.req.createdBy # resp.caller

\* The sum of the stored weights of the rows with these indices.
RECURSIVE SumRows(_)
SumRows(S) ==
    IF S = {} THEN 0
    ELSE LET i == CHOOSE x \in S : TRUE
         IN  Hundredths(weightRecords[i].weight) + SumRows(S \ {i})

\* The rows of weight_records of one user in one calendar month.
RowsInMonth(userId, year, month) ==
    {i \in 1..Len(weightRecords) :
        /\ weightRecords[i].userId = userId
        /\ YearOf(weightRecords[i].date) = year
        /\ MonthOf(weightRecords[i].date) = month}

\* C4: the daily stats of user u and date d carry the sum, the number and the
\* set of exactly the stored records with userId = u and date = d; with no
\* such record they are {totalWeight: 0, recordCount: 0, records: []}.
C4_DailyStats ==
    (resp.op = "daily" /\ resp.status = 200) =>
        LET rows == RowsOn(resp.req.userId, resp.req.date) IN
        /\ resp.body.totalWeight = SumRows(rows)
        /\ resp.body.recordCount = Cardinality(rows)
        /\ Len(resp.body.records) = Cardinality(rows)
        /\ {resp.body.records[k] : k \in 1..Len(resp.body.records)}
              = {weightRecords[i] : i \in rows}
        /\ rows = {} =>
              resp.body = [totalWeight |-> 0, recordCount |-> 0, records |-> <<>>]

\* C4 witness: daily stats over two matching records while a third record of
\* another date or user is stored.
C4_Witness ==
    /\ resp.op = "daily" /\ resp.status = 200
    /\ resp.body.recordCount = 2
    /\ Len(weightRecords) = 3

\* C5: the weights of the grouped per-day entries of monthly stats sum to its
\* totalWeight, and the entries are in ascending order of date string.
C5_MonthlyGroups ==
    (resp.op = "monthly" /\ resp.status = 200) =>
        LET g == resp.body.dailyStats
            RECURSIVE Total(_)
            Total(k) == IF k = 0 THEN 0 ELSE Total(k - 1) + g[k].weight
        IN  /\ Total(Len(g)) = resp.body.totalWeight
            /\ \A i, j \in 1..Len(g) : i < j => g[i].date <= g[j].date

\* C5 witness: monthly stats with two per-day entries, one of them grouping
\* two records.
C5_Witness ==
    /\ resp.op = "monthly" /\ resp.status = 200
    /\ Len(resp.body.dailyStats) = 2
    /\ resp.body.recordCount = 3

\* C6: monthly stats of (user, year, month) cover exactly the user's records
\* dated from the first to the true last calendar day of that month.
C6_MonthRange ==
    (resp.op = "monthly" /\ resp.status = 200) =>
        LET rows == RowsInMonth(resp.req.userId, resp.req.year, resp.req.month) IN
        /\ resp.body.recordCount = Cardinality(rows)
        /\ resp.body.totalWeight = SumRows(rows)

\* C7: in dashboard stats and in user summary stats avgDaily is totalMonth
\* over the number of days of the current calendar month (the month of the
\* server's local date), never the days elapsed.
C7_AvgDaily ==
    (resp.op \in {"dashboard", "summary"} /\ resp.status = 200) =>
        LET local == LocalDateOf(resp.req.today, tz) IN
        /\ resp.body.avgDaily.num = resp.body.totalMonth
        /\ resp.body.avgDaily.den = DaysInMonth(YearOf(local), MonthOf(local))

\* C7 witness: a dashboard read in February 2024 (a leap year) with records
\* in the month: the divisor is 29.
C7_Witness ==
    /\ resp.op = "dashboard" /\ resp.status = 200
    /\ resp.body.avgDaily.den = 29
    /\ resp.body.totalMonth > 0
    /\ tz > 0

\* C11: in every reachable state every stored weight record has a stored
\* weight (the two-decimal value of the column) strictly greater than 0.
C11_StoredPositive ==
    \A i \in 1..Len(weightRecords) : parseFloat(weightRecords[i].weight) > 0

\* No two stored users share a national identifier.
CpfUnique(rows) == \A a, b \in rows : a.cpf = b.cpf => a = b

C13_UpdateKeepsKeys ==
    [][(Ready /\ resp'.op = "updateUser") =>
          \A u \in users : \E v \in users' : v.id = u.id /\ v.cpf = u.cpf]_vars

\* The fields a weight record is created with.
RecordFields == {"id", "userId", "weight", "date", "notes", "createdBy"}

\* C14: weight records are append-only and immutable: whatever request is
\* served, every record stored before it is stored after it, at the same
\* place, with the same id, userId, weight, date, notes and createdBy.
C14_AppendOnly ==
    [][/\ Len(weightRecords') >= Len(weightRecords)
       /\ \A i \in 1..Len(weightRecords) :
             \A f \in RecordFields : weightRecords'[i][f] = weightRecords[i][f]]_vars

\* C14 witness: a second, different record was created while the first was
\* stored.
C14_Witness ==
    /\ resp.op = "createRecord" /\ resp.status = 200
    /\ Len(weightRecords) = 2
    /\ weightRecords[1].weight # weightRecords[2].weight

\* A create-weight-record body that lacks userId, weight or date, carries a
\* weight that is not positive, or names a user id that no stored user has.
BadRecordBody(body) ==
    \/ body.userId = Absent \/ body.weight = Absent \/ body.date = Absent
    \/ body.weight <= 0
    \/ ~(\E u \in users : u.id = body.userId)

\* C15: a create-weight-record request with a missing required field, a
\* non-positive weight or a target user id that does not exist is answered
\* with an error and leaves the weight_records table unchanged.
C15_RejectsBadRecord ==
    [][(Ready /\ resp'.op = "createRecord" /\ BadRecordBody(resp'.req)) =>
          (resp'.status >= 400 /\ weightRecords' = weightRecords)]_vars

\* C15 witness: an administrator's request, complete and with a positive
\* weight, for a user id that is not stored was answered 400.
C15_Witness ==
    /\ resp.op = "createRecord" /\ resp.status = 400
    /\ StoredAdmin(resp.caller)
    /\ resp.req.userId # Absent /\ resp.req.date # Absent /\ resp.req.weight > 0
    /\ ~(\E u \in users : u.id = resp.req.userId)

\* The identifier a create-user or update-user request carries, if any.
RequestCpf(r) ==
    IF r.op = "createUser" /\ "cpf" \in DOMAIN r.req THEN {r.req.cpf}
    ELSE IF r.op = "updateUser" /\ "cpf" \in DOMAIN r.req.body THEN {r.req.body.cpf}
    ELSE {}

\* C16: every stored user has a national identifier of exactly 11
\* characters; a create-user or update-user request that carries an
\* identifier of another length is refused as a validation error (400) and
\* leaves the users table unchanged.
C16_CpfLength ==
    [][/\ \A u \in users' : CpfLen(u.cpf) = 11
       /\ (Ready /\ \E c \in RequestCpf(resp') : CpfLen(c) # 11 /\ c # Missing)
          => (resp'.status = 400 /\ users' = users)]_vars

\* The fields of an entry of the public listing.
PublicFields == {"id", "firstName", "lastName", "workType"}

\* C17: the public user listing, which needs no session, answers exactly the
\* users that are active and not admin, one entry each, and an entry carries
\* id, firstName, lastName and workType of its user and nothing else.
C17_PublicListing ==
    resp.op = "users/public" =>
        /\ resp.status = 200
        /\ \A e \in resp.body.users :
              /\ DOMAIN e = PublicFields
              /\ \E u \in users : /\ u.isActive = TRUE /\ u.isAdmin = FALSE
                                  /\ \A f \in PublicFields : e[f] = u[f]
        /\ \A u \in users :
              (u.isActive = TRUE /\ u.isAdmin = FALSE) =>
                  Cardinality({e \in resp.body.users : e.id = u.id}) = 1

\* C17 witness: a caller without a session was answered a listing that has
\* an entry and leaves a stored user out.
C17_Witness ==
    /\ resp.op = "users/public" /\ resp.caller = NoUser
    /\ resp.body.users # {}
    /\ \E u \in users : \A e \in resp.body.users : e.id # u.id

\* The three ways a well-formed login fails.
WrongPassword(body) ==
    \E u \in users : u.cpf = body.cpf /\ u.isActive = TRUE /\ u.password # body.password
UnknownCpf(body) == ~(\E u \in users : u.cpf = body.cpf)
InactiveUser(body) ==
    \E u \in users : u.cpf = body.cpf /\ u.password = body.password /\ u.isActive = FALSE

\* C18: a well-formed login that fails because the password is wrong, because
\* no user has the identifier, or because the user is inactive is answered
\* with one and the same status and body, after the same single query.
C18_LoginFailuresAlike ==
    (/\ resp.op = "login" /\ loginSchemaOk(resp.req)
     /\ (WrongPassword(resp.req) \/ UnknownCpf(resp.req) \/ InactiveUser(resp.req)))
    => /\ resp.status = 401
       /\ resp.body = Message("CPF ou senha invalidos")
       /\ resp.db = 1

\* C18 witness: a login with an identifier that no user has was refused,
\* while a stored user would have been refused for the password.
C18_Witness ==
    /\ resp.op = "login" /\ resp.status = 401
    /\ UnknownCpf(resp.req)
    /\ \E u \in users : u.password # resp.req.password

ReadOps == {"users", "records", "daily", "monthly", "dashboard", "summary"}

UserIdsOf(rows) == {u.id : u \in rows}

\* C20: users are never deleted and references stay valid: whatever request
\* is served, every user id that existed before it exists after it, and the
\* userId and the createdBy of every weight record are ids of stored users.
C20_UsersKept ==
    [][/\ UserIdsOf(users) \subseteq UserIdsOf(users')
       /\ \A i \in 1..Len(weightRecords') :
             /\ weightRecords'[i].userId \in UserIdsOf(users')
             /\ weightRecords'[i].createdBy \in UserIdsOf(users')]_vars

\* A request that only an administrator is served: an admin-only route, or a
\* per-user read of another user's data.
AdminGuarded(r, caller) ==
    \/ r.op \in AdminOps
    \/ r.op \in PerUserReads /\ r.req.userId # caller

\* C21: authorization is decided per request from the caller's admin flag as
\* stored when the request arrives: a request that only an administrator is
\* served is allowed exactly when the user bound to its session is stored as
\* admin; in particular the request that follows an update setting that
\* user's flag to false is rejected, and the one that follows an update
\* setting it to true is allowed, on the session as it is bound.
C21_PerRequest ==
    [][LET caller == session[resp'.sid]
           allowed == resp'.status \notin {401, 403}
           updated == /\ resp.op = "updateUser" /\ resp.status = 200
                      /\ "isAdmin" \in DOMAIN resp.req.body
                      /\ \E u \in resp.body.user : u.id = caller
       IN  (caller # NoUser /\ AdminGuarded(resp', caller)) =>
               /\ allowed <=> StoredAdmin(caller)
               /\ updated => (allowed <=> resp.req.body.isAdmin)
               /\ session' = session]_vars

\* C21 witness: the worker, created without the admin flag, was served the
\* admin-only listing of users.
C21_Witness ==
    /\ resp.op = "users" /\ resp.status = 200
    /\ resp.caller = 2

\* C22: whenever a weight record is inserted, the user its createdBy refers
\* to is stored with the admin flag true at that moment, also when an
\* update-user request clears the flag between the admin check of the
\* create-weight-record request and its insert.
C22_CreatorIsAdmin ==
    [][Len(weightRecords') > Len(weightRecords) =>
          StoredAdmin(weightRecords'[Len(weightRecords')].createdBy)]_vars

\* The rows of a sequence, and the stored weight records, as sets.
RowsOf(seq) == {seq[i] : i \in 1..Len(seq)}
StoredRecords == RowsOf(weightRecords)

\* What a listing asked with the query dates s and e is to hold, of the rows
\* given: those with s <= date <= e when both are supplied, all otherwise.
InRange(rows, s, e) ==
    IF s # Absent /\ e # Absent THEN {r \in rows : s <= r.date /\ r.date <= e}
    ELSE rows

\* C23: getUserWeightRecords and getAllWeightRecords apply the date filter
\* only when both bounds are supplied: with both they return exactly the
\* (user's) records with start <= date <= end, each once; with only a start,
\* only an end or neither they return all of the (user's) records.
C23_DateFilter ==
    /\ (resp.op = "records" /\ resp.status = 200) =>
          LET got == resp.body.records
              mine == {r \in StoredRecords : r.userId = resp.req.userId}
          IN  /\ RowsOf(got) = InRange(mine, resp.req.startDate, resp.req.endDate)
              /\ Len(got) = Cardinality(RowsOf(got))
    /\ \A s \in StatRange, e \in StatRange :
          LET got == getAllWeightRecords(QueryDate(s), QueryDate(e))
          IN  /\ RowsOf(got) = InRange(StoredRecords, s, e)
              /\ Len(got) = Cardinality(RowsOf(got))

\* C23 witness: a listing asked with both bounds holds the user's records
\* dated on the start and on the end of the range and leaves out a record of
\* the user dated outside of it.
C23_Witness ==
    /\ resp.op = "records" /\ resp.status = 200
    /\ resp.req.startDate # Absent /\ resp.req.endDate # Absent
    /\ \E r \in RowsOf(resp.body.records) : r.date = resp.req.startDate
    /\ \E r \in RowsOf(resp.body.records) : r.date = resp.req.endDate
    /\ \E r \in StoredRecords :
          r.userId = resp.req.userId /\ r \notin RowsOf(resp.body.records)

\* A list in the order date descending, then creation time descending.
NewestFirst(seq) ==
    \A i \in 1..(Len(seq) - 1) :
        \/ seq[i].date > seq[i + 1].date
        \/ seq[i].date = seq[i + 1].date /\ seq[i].createdAt >= seq[i + 1].createdAt

\* C24: the list answered by list-user-records, and the list of all records,
\* is ordered by date descending and, among records of one date, by creation
\* time descending, whatever the bounds asked.
C24_Ordering ==
    /\ (resp.op = "records" /\ resp.status = 200) => NewestFirst(resp.body.records)
    /\ \A s \in StatRange, e \in StatRange :
          NewestFirst(getAllWeightRecords(QueryDate(s), QueryDate(e)))

\* C24 witness: a listing of three records, two of one date and one of an
\* earlier date that was created last.
C24_Witness ==
    /\ resp.op = "records" /\ resp.status = 200
    /\ Len(resp.body.records) = 3
    /\ resp.body.records[1].date = resp.body.records[2].date
    /\ resp.body.records[2].date > resp.body.records[3].date
    /\ resp.body.records[3].createdAt > resp.body.records[1].createdAt

\* C25: the activeUsers of the dashboard is the number of stored users whose
\* active flag is true, admins counted with the others: the length of the
\* list of active non-admin users plus the number of active admins.
C25_ActiveUsers ==
    (resp.op = "dashboard" /\ resp.status = 200) =>
        /\ resp.body.activeUsers = Cardinality({u \in users : u.isActive = TRUE})
        /\ resp.body.activeUsers =
              Cardinality(getActiveUsers)
              + Cardinality({u \in users : u.isActive = TRUE /\ u.isAdmin = TRUE})

\* C25 witness: a dashboard counting two active users, one of them an admin
\* that the list of active users leaves out.
C25_Witness ==
    /\ resp.op = "dashboard" /\ resp.status = 200
    /\ resp.body.activeUsers = 2
    /\ Cardinality(getActiveUsers) = 1

\* The sum, over the users of S, of one total of their summary at an instant.
RECURSIVE SumSummaries(_, _, _)
SumSummaries(S, today, total) ==
    IF S = {} THEN 0
    ELSE LET u == CHOOSE x \in S : TRUE
         IN  getUserSummaryStats(u.id, today)[total]
             + SumSummaries(S \ {u}, today, total)

\* C26: at any state and clock instant the totalToday and the totalMonth of
\* the dashboard are the sums, over all users, of the totalToday and the
\* totalMonth of the user's summary at that instant.
C26_DashboardIsSum ==
    (resp.op = "dashboard" /\ resp.status = 200) =>
        /\ resp.body.totalToday = SumSummaries(users, resp.req.today, "totalToday")
        /\ resp.body.totalMonth = SumSummaries(users, resp.req.today, "totalMonth")

\* C26 witness: a dashboard whose totals for the day and for the month are
\* made of records of two users.
C26_Witness ==
    /\ resp.op = "dashboard" /\ resp.status = 200
    /\ \E a, b \in users :
          /\ a.id # b.id
          /\ getUserSummaryStats(a.id, resp.req.today).totalToday > 0
          /\ getUserSummaryStats(b.id, resp.req.today).totalToday > 0
          /\ getUserSummaryStats(a.id, resp.req.today).totalMonth
                > getUserSummaryStats(a.id, resp.req.today).totalToday

\* C27: a session is bound by a successful login, to the user who logged in,
\* and unbound by a logout, and by nothing else; as long as it is bound to a
\* user the current-user operation on it answers that user's record; as
\* long as it is not bound every request that needs a session is answered
\* 401 Unauthorized.
C27_SessionLifecycle ==
    [][/\ \A s \in Sessions :
             session'[s] # session[s] =>
                 /\ resp'.sid = s
                 /\ \/ /\ resp'.op = "login" /\ resp'.status = 200
                       /\ session'[s] = resp'.body.id
                    \/ resp'.op = "logout" /\ session'[s] = NoUser
       /\ (resp'.op = "auth/user" /\ session[resp'.sid] # NoUser) =>
             /\ resp'.status = 200
             /\ \E u \in resp'.body.user : u.id = session[resp'.sid]
       /\ (resp'.op \in SessionOps /\ session[resp'.sid] = NoUser) =>
             resp'.status = 401]_vars

\* The user with this id is stored with the active flag false.
StoredInactive(id) == \E u \in users : u.id = id /\ u.isActive = FALSE

\* C28: the active flag is consulted only at login. An update-user request
\* leaves every session bound as it was; a login with the identifier and
\* password of an inactive user is refused; and a request on a session bound
\* to a user stored as inactive is served as for an active one: the user's
\* own statistics and record, and the admin-only operations if the user is
\* an admin.
C28_ActiveOnlyAtLogin ==
    [][LET caller == session[resp'.sid] IN
       /\ resp'.op = "updateUser" => session' = session
       /\ (resp'.op = "login" /\ loginSchemaOk(resp'.req) /\ InactiveUser(resp'.req))
             => (resp'.status = 401 /\ session' = session)
       /\ (caller # NoUser /\ StoredInactive(caller)) =>
             /\ (resp'.op \in PerUserReads /\ resp'.req.userId = caller)
                   => resp'.status = 200
             /\ resp'.op = "auth/user" => resp'.status = 200
             /\ (resp'.op \in AdminOps /\ StoredAdmin(caller))
                   => resp'.status \notin {401, 403}]_vars

\* C28 witness: an administrator stored as inactive, whose session was bound
\* before, was served the admin-only listing of users.
C28_Witness ==
    /\ resp.op = "users" /\ resp.status = 200
    /\ StoredInactive(resp.caller)

\* C29: in the dashboard and in every user summary, whatever the stored
\* records, the clock instant and the server's time zone, totalToday is at
\* most totalMonth: the date taken as today lies in the range of the month.
C29_TodayWithinMonth ==
    (resp.op \in {"dashboard", "summary"} /\ resp.status = 200) =>
        resp.body.totalToday <= resp.body.totalMonth

====
